---- MODULE Spec2Model ----
(***************************************************************************)
(* Attendance management system: the group-photo matcher of               *)
(* app/routes/images.py (upload), the embedding helpers of                *)
(* app/utils/face_recognition.py and the manual marking of                *)
(* app/routes/attendance.py, over the Student / Attendance / ImageUpload  *)
(* tables of app/models.py.                                                *)
(*                                                                         *)
(* Embeddings are integer vectors whose Euclidean norm is an integer, so   *)
(* that a cosine similarity is an exact rational num/den; similarities    *)
(* are compared by cross-multiplication.                                   *)
(***************************************************************************)
EXTENDS Integers, Sequences, FiniteSets, TLC

\* ------------------------------------------------------------------ bounds
MaxFaces == 2         \* faces the detector returns for one photo

EmbeddingDim == 512   \* embedding.shape[0] != 512

NULL == [tag |-> "None"]     \* Python None where an embedding is expected
NoStudent == 0                \* Python None where a student is expected

\* ------------------------------------------------------------- the fixture
Teachers == {1, 2}                      \* User rows with role = 'teacher'
StudentIds == {1, 2, 3}                 \* Student rows
TeacherOf == <<1, 1, 2>>                \* Student.teacher_id of each row
Principals == {3}                       \* User rows with role = 'principal'

\* Unit-length directions, scaled by 5 (every vector has norm 5).  A vector
\* is written by its leading components; the components after them, up to
\* its length, are 0.
VecA == <<5, 0, 0, 0>>
VecB == <<0, 5, 0, 0>>
VecC == <<2, 4, 2, 1>>                  \* cos(A,C) = 0.4, cos(B,C) = 0.8
VecD == <<3, 4, 0, 0>>                  \* cos(A,D) = 0.6, cos(B,D) = 0.8
RefVectors == {VecA, VecB}              \* what enrollment photos produce
FaceVectors == {VecA, VecC, VecD}       \* what group photos produce

VARIABLES
    students,     \* Student table: id -> [teacher_id, face_embedding]
    attendance,   \* committed Attendance rows
    uploads,      \* committed ImageUpload rows, in insertion order
    today,        \* date.today()
    clock,        \* get_local_datetime(), one tick per request
    last,         \* what the last request computed and answered
    prev,         \* a summary of the request before it
    inflight,     \* the uploads being served at the same time
    photos,       \* what became of the enrollment photos of each student
    probe,        \* an embedding, its stored text and the text read back
    users,        \* User table: id -> [role, is_approved, serial]
    sessions,     \* the user ids held by the browsers' login sessions
    regs,         \* what became of each account created, by serial number
    disk          \* the paths of the files in static/uploads

vars == <<students, attendance, uploads, today, clock, last, prev,
          inflight, photos, probe, users, sessions, regs, disk>>

\* --------------------------------------------------------------- rationals
Rat(n, d) == [num |-> n, den |-> d]
RatGT(x, y) == x.num * y.den > y.num * x.den
RatGE(x, y) == x.num * y.den >= y.num * x.den
RatEQ(x, y) == x.num * y.den = y.num * x.den
Zero == Rat(0, 1)

\* --------------------------------------------------- sequences and helpers
RECURSIVE SortedSeq(_)
SortedSeq(S) ==
    IF S = {} THEN << >>
    ELSE LET m == CHOOSE x \in S : \A y \in S : x <= y
         IN <<m>> \o SortedSeq(S \ {m})

Range(s) == {s[i] : i \in 1 .. Len(s)}

RECURSIVE SeqsUpTo(_, _)
SeqsUpTo(S, n) ==
    IF n = 0 THEN {<< >>}
    ELSE LET shorter == SeqsUpTo(S, n - 1)
         IN shorter \cup {Append(q, x) : q \in {r \in shorter : Len(r) = n - 1}, x \in S}

\* ------------------------------------------------- face_recognition.py
\* A numpy array, a Python list and a str are tagged values of a length
\* (shape) with their leading items (data).
NdArray(n, v) == [tag |-> "ndarray", ndim |-> 1, shape |-> n, data |-> v]

\* np.array of one value: an array of no dimension
Scalar(x) == [tag |-> "ndarray", ndim |-> 0, shape |-> 0, data |-> <<x>>]
NaN == "nan"
PyList(n, v) == [tag |-> "list", shape |-> n, data |-> v]

\* the text of a number: its sign and its decimal digits
DigitChars == <<"0", "1", "2", "3", "4", "5", "6", "7", "8", "9">>

RECURSIVE Digits(_)
Digits(n) ==
    IF n < 10 THEN <<DigitChars[n + 1]>>
    ELSE Append(Digits(n \div 10), DigitChars[(n % 10) + 1])

\* FloatRepr that drops the sign
FloatRepr_Unsigned(x) == IF x < 0 THEN Digits(0 - x) ELSE Digits(x)

FloatRepr(x) == IF x < 0 THEN <<"-">> \o Digits(0 - x) ELSE Digits(x)

\* the number a text stands for
DigitValues ==
    [c \in {DigitChars[i] : i \in 1 .. 10} |-> CHOOSE d \in 0 .. 9 : DigitChars[d + 1] = c]
DigitValue(c) == DigitValues[c]

RECURSIVE NumberFrom(_, _, _)
NumberFrom(chars, i, acc) ==
    IF i > Len(chars) THEN acc
    ELSE NumberFrom(chars, i + 1, 10 * acc + DigitValue(chars[i]))

ParseFloat(chars) ==
    IF chars[1] = "-" THEN 0 - NumberFrom(chars, 2, 0) ELSE NumberFrom(chars, 1, 0)

\* json.dumps of a list of numbers: the text of each item
JsonDumps(lst) ==
    [tag |-> "str", valid |-> TRUE, json |-> "array", shape |-> lst.shape,
     data |-> [i \in 1 .. Len(lst.data) |-> FloatRepr(lst.data[i])]]

\* the numbers the first n texts stand for
RECURSIVE ParseItems(_, _)
ParseItems(texts, n) ==
    IF n = 0 THEN << >>
    ELSE Append(ParseItems(texts, n - 1), ParseFloat(texts[n]))

\* json.loads of the text of a list of numbers
JsonLoads(s) == PyList(s.shape, ParseItems(s.data, Len(s.data)))

\* an exception leaves the function
Raised == [tag |-> "raised"]

embedding_to_json(embedding) ==
    IF embedding = NULL THEN NULL ELSE PyList(embedding.shape, embedding.data)

\* the text of a JSON value that is no array: a number, null, a string, an
\* object
JsonText(kind, items) ==
    [tag |-> "str", valid |-> TRUE, json |-> kind, shape |-> 0, data |-> items]
NumberText(x) == JsonText("number", <<FloatRepr(x)>>)
NullText == JsonText("null", << >>)
StringText(chars) == JsonText("string", <<chars>>)
ObjectText == JsonText("object", << >>)

\* a string that float() accepts
IsNumeral(chars) ==
    /\ Len(chars) > 0
    /\ \/ /\ chars[1] = "-"
          /\ Len(chars) > 1
          /\ \A i \in 2 .. Len(chars) : chars[i] \in DOMAIN DigitValues
       \/ \A i \in 1 .. Len(chars) : chars[i] \in DOMAIN DigitValues

\* np.array(json.loads(s), dtype=np.float32): a list of numbers gives the
\* array of them; a number, None and a string that reads as a number give
\* an array of no dimension; another string and a dict raise
NpArray(s) ==
    IF s.json = "array" THEN NdArray(s.shape, JsonLoads(s).data)
    ELSE IF s.json = "number" THEN Scalar(ParseFloat(s.data[1]))
    ELSE IF s.json = "null" THEN Scalar(NaN)
    ELSE IF s.json = "string" /\ IsNumeral(s.data[1])
    THEN Scalar(ParseFloat(s.data[1]))
    ELSE Raised

\* json.loads raises on a text that is not JSON
json_to_embedding(embedding_json) ==
    IF embedding_json = NULL THEN NULL
    ELSE IF embedding_json.tag = "str"
    THEN IF embedding_json.valid
         THEN NpArray(embedding_json)
         ELSE Raised
    ELSE NdArray(embedding_json.shape, embedding_json.data)

RECURSIVE DotFrom(_, _, _)
DotFrom(a, b, i) ==
    IF i > Len(a) THEN 0 ELSE a[i] * b[i] + DotFrom(a, b, i + 1)
Dot(a, b) == DotFrom(a, b, 1)
Root(d) == CHOOSE n \in 0 .. d : n * n = d
Norm(a) == Root(Dot(a, a))

\* np.dot(e1, e2) / (np.linalg.norm(e1) * np.linalg.norm(e2))
Cosine(a, b) == Rat(Dot(a, b), Norm(a) * Norm(b))

\* is_same = similarity >= threshold; return is_same, float(similarity)
Compared(similarity, threshold) == <<RatGE(similarity, threshold), similarity>>

\* compare_faces: <<is_same, similarity>>.  A None operand, or an exception
\* while computing (np.dot on different lengths), answers <<FALSE, 0.0>>.
compare_faces(embedding1, embedding2, threshold) ==
    IF embedding1 = NULL \/ embedding2 = NULL THEN <<FALSE, Zero>>
    ELSE IF embedding1.shape # embedding2.shape THEN <<FALSE, Zero>>
    ELSE Compared(Cosine(embedding1.data, embedding2.data), threshold)

\* detect_all_faces: the embeddings found, each with its 0-based index
DetectedFaces(found) ==
    [i \in 1 .. Len(found) |-> [embedding |-> NdArray(EmbeddingDim, found[i]), face_idx |-> i - 1]]

\* find_student_in_group: the answer when nothing can be compared
NotFound ==
    [found |-> FALSE, best_match_index |-> -1, best_similarity |-> Zero,
     all_matches |-> << >>, total_faces |-> 0]

\* the loop over detected_faces from the i-th face on; so_far holds matches,
\* best_match_idx and best_similarity
RECURSIVE FindLoop(_, _, _, _, _)
FindLoop(student_embedding, detected_faces, threshold, i, so_far) ==
    IF i > Len(detected_faces) THEN so_far
    ELSE LET face == detected_faces[i]
             similarity == compare_faces(student_embedding, face.embedding, Zero)[2]
             better == RatGT(similarity, so_far.best_similarity)
         IN FindLoop(student_embedding, detected_faces, threshold, i + 1,
                     [matches |-> Append(so_far.matches,
                                         [index |-> face.face_idx,
                                          similarity |-> similarity,
                                          is_match |-> RatGE(similarity, threshold)]),
                      best_match_idx |-> IF better THEN face.face_idx
                                         ELSE so_far.best_match_idx,
                      best_similarity |-> IF better THEN similarity
                                          ELSE so_far.best_similarity])

\* the answer after the loop
Found(so_far, threshold, total_faces) ==
    [found |-> RatGE(so_far.best_similarity, threshold),
     best_match_index |-> IF RatGE(so_far.best_similarity, threshold)
                          THEN so_far.best_match_idx ELSE -1,
     best_similarity |-> so_far.best_similarity,
     all_matches |-> so_far.matches,
     total_faces |-> total_faces]

\* find_student_in_group(student_embedding, group_image_path, threshold);
\* of the group photo: whether detect_all_faces answers, and the faces
find_student_in_group(student_embedding, detect_ok, found, threshold) ==
    LET embedding == IF student_embedding.tag \in {"list", "str"}
                     THEN json_to_embedding(student_embedding)
                     ELSE student_embedding
    IN IF embedding = Raised \/ embedding = NULL \/ ~detect_ok \/ Len(found) = 0
       THEN NotFound
       ELSE Found(FindLoop(embedding, DetectedFaces(found), threshold, 1,
                           [matches |-> << >>, best_match_idx |-> -1,
                            best_similarity |-> Zero]),
                  threshold, Len(found))

\* ----------------------------------------------------------- models.py
\* Attendance.query.filter_by(student_id=..., date=...)
AttendanceFor(att, student_id, date) ==
    {r \in att : r.student_id = student_id /\ r.date = date}

\* .first(): the row with the lowest primary key
First(rows) == CHOOSE r \in rows : \A q \in rows : r.id <= q.id

\* the primary key an INSERT receives
NextId(att) ==
    IF att = {} THEN 1
    ELSE 1 + (CHOOSE m \in {r.id : r \in att} : \A r \in att : r.id <= m)

Attendance(att, student_id, date, status, marked_by, last_modified) ==
    [id |-> NextId(att), student_id |-> student_id, date |-> date,
     status |-> status, marked_by |-> marked_by, last_modified |-> last_modified]

\* TeacherStudents without the filter on teacher_id
TeacherStudents_Everyone(user) == SortedSeq(StudentIds)

\* Student.query.filter_by(teacher_id=...).all(), in primary-key order
TeacherStudents(user) ==
    SortedSeq({s \in StudentIds : students[s].teacher_id = user})

\* ------------------------------------------------- images.py: the matcher
MatchThreshold == Rat(6, 10)

\* StudentsWithFaces without the filter on face_embedding
StudentsWithFaces_All(teacher_students) == teacher_students

\* students_with_faces = [s for s in teacher_students if s.face_embedding]
StudentsWithFaces(teacher_students) ==
    SelectSeq(teacher_students, LAMBDA s : students[s].face_embedding # NULL)

\* the similarity of a detected face to one student of the roster
Similarity(embedding, student) ==
    compare_faces(embedding, json_to_embedding(students[student].face_embedding), Zero)[2]

\* Improves with >= : the last maximum wins
Improves_OrEqual(similarity, best_similarity) == RatGE(similarity, best_similarity)

\* if similarity > best_similarity
Improves(similarity, best_similarity) == RatGT(similarity, best_similarity)

\* the body of the inner loop: keep the running maximum
Better(best, similarity, student) ==
    IF Improves(similarity, best.similarity)
    THEN [similarity |-> similarity, student |-> student]
    ELSE best

\* the inner loop over students_with_faces for one detected face
RECURSIVE BestMatchFrom(_, _, _, _)
BestMatchFrom(embedding, roster, i, best) ==
    IF i > Len(roster) THEN best
    ELSE BestMatchFrom(embedding, roster, i + 1,
                       Better(best, Similarity(embedding, roster[i]), roster[i]))

BestMatch(embedding, roster) ==
    BestMatchFrom(embedding, roster, 1, [similarity |-> Zero, student |-> NoStudent])

\* IsMatch with a strict comparison to the threshold
IsMatch_Strict(best) ==
    best.student # NoStudent /\ RatGT(best.similarity, Rat(6, 10))

\* if best_match and best_similarity >= 0.6
IsMatch(best) ==
    best.student # NoStudent /\ RatGE(best.similarity, MatchThreshold)

NoMatches ==
    [matched_students |-> {}, matches |-> << >>, students_matched |-> 0,
     raised |-> FALSE]

\* line 160 is outside the try of compare_faces: json_to_embedding raises
\* on the stored text of a student while the first face is compared, before
\* any match is recorded, and the except of line 269 ends the matching
RaisedMatches == [NoMatches EXCEPT !.raised = TRUE]

MatchingRaises(students_with_faces) ==
    \E i \in 1 .. Len(students_with_faces) :
        json_to_embedding(students[students_with_faces[i]].face_embedding) = Raised

\* AddFace that records at most one face for a student
AddFace_OncePerStudent(before, face, best) ==
    IF best.student # NoStudent /\ RatGE(best.similarity, Rat(6, 10))
       /\ best.student \notin before.matched_students
    THEN [before EXCEPT
             !.matched_students = @ \cup {best.student},
             !.matches = Append(@, [face_index |-> face.face_idx,
                                    student_id |-> best.student,
                                    similarity |-> best.similarity]),
             !.students_matched = @ + 1]
    ELSE before

\* the end of the outer loop's body: record the match of one face
AddFace(before, face, best) ==
    IF IsMatch(best)
    THEN [before EXCEPT
             !.matched_students = @ \cup {best.student},
             !.matches = Append(@, [face_index |-> face.face_idx,
                                    student_id |-> best.student,
                                    similarity |-> best.similarity]),
             !.students_matched = @ + 1]
    ELSE before

\* the outer loop over detected_faces: matched_students, matches and the
\* students_matched counter after the faces 1..n
RECURSIVE MatchFaces(_, _, _)
MatchFaces(detected_faces, roster, n) ==
    IF n = 0 THEN NoMatches
    ELSE AddFace(MatchFaces(detected_faces, roster, n - 1), detected_faces[n],
                 BestMatch(detected_faces[n].embedding, roster))

\* UnmatchedStudentIds without the filter on matched_students
UnmatchedStudentIds_Unfiltered(students_with_faces, matched_students) ==
    students_with_faces

\* unmatched_student_ids = [sid for sid in all_student_ids if sid not in matched_students]
UnmatchedStudentIds(students_with_faces, matched_students) ==
    SelectSeq(students_with_faces, LAMBDA sid : sid \notin matched_students)

\* ------------------------------------------ images.py: the reconciliation
\* PresentWrite that rewrites a row that is already present
PresentWrite_Always(att, existing_attendance, student_id, user, now) ==
    IF existing_attendance # {}
    THEN [att |-> (att \ {First(existing_attendance)}) \cup
                  {[First(existing_attendance) EXCEPT
                       !.status = TRUE, !.last_modified = now]},
          wrote |-> 1]
    ELSE [att |-> att \cup {Attendance(att, student_id, today, TRUE, user, now)},
          wrote |-> 1]

\* the body of "for student_id in matched_students", given the query's rows
PresentWrite(att, existing_attendance, student_id, user, now) ==
    IF existing_attendance # {}
    THEN IF ~First(existing_attendance).status
         THEN [att |-> (att \ {First(existing_attendance)}) \cup
                       {[First(existing_attendance) EXCEPT
                            !.status = TRUE, !.last_modified = now]},
               wrote |-> 1]
         ELSE [att |-> att, wrote |-> 0]
    ELSE [att |-> att \cup {Attendance(att, student_id, today, TRUE, user, now)},
          wrote |-> 1]

MarkPresent(att, student_id, user, now) ==
    PresentWrite(att, AttendanceFor(att, student_id, today), student_id, user, now)

\* AbsentWrite that rewrites a row that is already absent
AbsentWrite_Always(att, existing_attendance, student_id, user, now) ==
    IF existing_attendance # {}
    THEN [att |-> (att \ {First(existing_attendance)}) \cup
                  {[First(existing_attendance) EXCEPT
                       !.status = FALSE, !.last_modified = now]},
          wrote |-> 1]
    ELSE [att |-> att \cup {Attendance(att, student_id, today, FALSE, user, now)},
          wrote |-> 1]

\* AbsentWrite that never downgrades an existing row
AbsentWrite_KeepPresent(att, existing_attendance, student_id, user, now) ==
    IF existing_attendance # {}
    THEN [att |-> att, wrote |-> 0]
    ELSE [att |-> att \cup {Attendance(att, student_id, today, FALSE, user, now)},
          wrote |-> 1]

\* the body of "for student_id in unmatched_student_ids"
AbsentWrite(att, existing_attendance, student_id, user, now) ==
    IF existing_attendance # {}
    THEN IF First(existing_attendance).status
         THEN [att |-> (att \ {First(existing_attendance)}) \cup
                       {[First(existing_attendance) EXCEPT
                            !.status = FALSE, !.last_modified = now]},
               wrote |-> 1]
         ELSE [att |-> att, wrote |-> 0]
    ELSE [att |-> att \cup {Attendance(att, student_id, today, FALSE, user, now)},
          wrote |-> 1]

MarkAbsent(att, student_id, user, now) ==
    AbsentWrite(att, AttendanceFor(att, student_id, today), student_id, user, now)

CountPresent(before, step) ==
    [att |-> step.att,
     present_writes |-> before.present_writes + step.wrote,
     absent_writes |-> before.absent_writes]

CountAbsent(before, step) ==
    [att |-> step.att,
     present_writes |-> before.present_writes,
     absent_writes |-> before.absent_writes + step.wrote]

\* iteration number `done` of the two loops (the matched ids, then the
\* unmatched ids), run over the session's view of the table
Iteration(before, present_seq, absent_seq, done, user, now) ==
    IF done <= Len(present_seq)
    THEN CountPresent(before, MarkPresent(before.att, present_seq[done], user, now))
    ELSE CountAbsent(before, MarkAbsent(before.att,
                                        absent_seq[done - Len(present_seq)], user, now))

\* the first `done` iterations: the session's rows and the writes of each loop
RECURSIVE Reconcile(_, _, _, _, _, _)
Reconcile(att, present_seq, absent_seq, done, user, now) ==
    IF done = 0 THEN [att |-> att, present_writes |-> 0, absent_writes |-> 0]
    ELSE Iteration(Reconcile(att, present_seq, absent_seq, done - 1, user, now),
                   present_seq, absent_seq, done, user, now)

\* ----------------------------------------------------- images.py: upload
\* One POST /images/upload is req = [user, found, detect_ok, fail_kind,
\* fail_at].  found and detect_ok are what detect_all_faces does with the
\* photo; fail_kind and fail_at name the iteration of the two attendance
\* loops that raises, if any:
\*   "exception" - an exception the inner try swallows (line 269): the
\*                 session stays usable and line 308 commits it;
\*   "db_error"  - a failed flush: the inner try swallows it too, but the
\*                 session's transaction is gone, the commit of line 308
\*                 raises and the outer except answers the error.
FailKinds == {"none", "exception", "db_error"}

\* Entered without the test on the number of faces
Entered_RosterOnly(detected_faces, students_with_faces) ==
    Len(students_with_faces) > 0

\* if len(detected_faces) > 0: ... if students_with_faces:
Entered(detected_faces, students_with_faces) ==
    Len(detected_faces) > 0 /\ Len(students_with_faces) > 0

\* the iterations of the attendance loops that complete
Done(req, present_seq, absent_seq) ==
    IF req.fail_kind # "none" THEN req.fail_at - 1
    ELSE Len(present_seq) + Len(absent_seq)

\* line 214 is reached: the first loop raised nothing
AbsentListed(req, m) ==
    req.fail_kind = "none" \/ req.fail_at > Cardinality(m.matched_students)

\* face_recognition_results['absent_marked'], set after the second loop
AbsentMarked(req, rec) ==
    IF req.fail_kind # "none" THEN 0 ELSE rec.absent_writes

\* db.session.commit() of line 308 succeeds
Commits(req) == req.fail_kind # "db_error"

\* lines 310-313: auto_sync_to_sheets() is called, after the commit
Synced(req, attendance_marked) == Commits(req) /\ attendance_marked > 0

\* ------------------------------------------------ images.py: the files
\* A file name is its stem, a sequence of characters, and its extension.
ALLOWED_EXTENSIONS == {"png", "jpg", "jpeg", "gif"}

allowed_file(filename) == filename.ext \in ALLOWED_EXTENSIONS

\* secure_filename(file.filename): white space becomes an underscore
secure_filename(filename) ==
    [filename EXCEPT !.stem = [i \in DOMAIN @ |-> IF @[i] = " " THEN "_" ELSE @[i]]]

uploads_dir == "static/uploads"

\* file_path = os.path.join(uploads_dir, filename)
FilePath(filename) ==
    [dir |-> uploads_dir, stem |-> filename.stem, ext |-> filename.ext]

\* annotate_group_photo(file_path, ..., output_path=None): the path it writes
AnnotatedPath(image_path) ==
    [image_path EXCEPT !.stem = @ \o <<"_", "a", "n", "n", "o", "t", "a", "t", "e", "d">>]

\* face_annotated_path: the annotation is made after the two loops, when
\* there are matches
Annotated(req, entered, m) ==
    IF entered /\ ~m.raised /\ req.fail_kind = "none" /\ Len(m.matches) > 0
    THEN AnnotatedPath(FilePath(secure_filename(req.file)))
    ELSE NULL

\* the files written by the request: file.save(file_path), cv2.imwrite
Written(file_path, face_annotated_path) ==
    {file_path} \cup (IF face_annotated_path = NULL THEN {} ELSE {face_annotated_path})

\* the id the next ImageUpload row is given
NextImageId(rows) ==
    IF Len(rows) = 0 THEN 1
    ELSE 1 + (CHOOSE n \in {rows[i].id : i \in DOMAIN rows} :
                  \A i \in DOMAIN rows : rows[i].id <= n)

\* the text of one entry of face_recognition_results['matches']
MatchRepr(match) ==
    [face_index |-> FloatRepr(match.face_index),
     student_id |-> FloatRepr(match.student_id),
     similarity |-> <<FloatRepr(match.similarity.num), FloatRepr(match.similarity.den)>>]

\* json.dumps(face_recognition_results['matches'])
JsonDumpsMatches(lst) ==
    [tag |-> "str", valid |-> TRUE, json |-> "array", shape |-> lst.shape,
     data |-> [i \in 1 .. Len(lst.data) |-> MatchRepr(lst.data[i])]]

\* the ImageUpload row and the answer of the request
Respond(req, faces_detected, entered, m, absent_seq, rec) ==
    [session |-> rec.att,
     committed |-> Commits(req),
     written |-> Written(FilePath(secure_filename(req.file)), Annotated(req, entered, m)),
     image_upload |-> [id |-> NextImageId(uploads),
                       date |-> today,
                       file_name |-> secure_filename(req.file),
                       file_path |-> FilePath(secure_filename(req.file)),
                       face_annotated_path |-> Annotated(req, entered, m),
                       uploaded_by |-> req.user,
                       faces_detected |-> faces_detected,
                       students_matched |-> m.students_matched,
                       attendance_marked_count |->
                           rec.present_writes + AbsentMarked(req, rec),
                       face_matches_json |->
                           JsonDumpsMatches(PyList(Len(m.matches), m.matches))],
     answer |-> [op |-> "upload",
                 user |-> req.user,
                 status |-> IF Commits(req) THEN "ok" ELSE "error",
                 found |-> IF req.detect_ok THEN req.found ELSE << >>,
                 error |-> ~req.detect_ok,
                 entered |-> entered,
                 raised |-> m.raised,
                 absent_listed |-> entered /\ ~m.raised /\ AbsentListed(req, m),
                 failed_at |-> IF req.fail_kind # "none" THEN req.fail_at ELSE 0,
                 written |-> rec.present_writes + rec.absent_writes,
                 faces_detected |-> faces_detected,
                 present_ids |-> m.matched_students,
                 absent_ids |-> IF AbsentListed(req, m) THEN Range(absent_seq) ELSE {},
                 matches |-> m.matches,
                 students_matched |-> m.students_matched,
                 attendance_marked |-> rec.present_writes + AbsentMarked(req, rec),
                 absent_marked |-> AbsentMarked(req, rec),
                 synced |-> Synced(req, rec.present_writes + AbsentMarked(req, rec))]]

\* lines 185-243: the two loops over the matched and the unmatched ids
AfterLists(req, faces_detected, entered, m, present_seq, absent_seq) ==
    Respond(req, faces_detected, entered, m, absent_seq,
            Reconcile(attendance, present_seq, absent_seq,
                      Done(req, present_seq, absent_seq), req.user, clock + 1))

\* lines 186 and 213-214: the ids each loop runs over
AfterMatching(req, faces_detected, entered, students_with_faces, m) ==
    AfterLists(req, faces_detected, entered, m,
               SortedSeq(m.matched_students),
               IF entered /\ ~m.raised
               THEN UnmatchedStudentIds(students_with_faces, m.matched_students)
               ELSE << >>)

\* lines 145-183: the matching, when there is a face and a roster
AfterDetection(req, detected_faces, students_with_faces) ==
    AfterMatching(req, Len(detected_faces),
                  Entered(detected_faces, students_with_faces),
                  students_with_faces,
                  IF Entered(detected_faces, students_with_faces)
                  THEN IF MatchingRaises(students_with_faces)
                       THEN RaisedMatches
                       ELSE MatchFaces(detected_faces, students_with_faces,
                                       Len(detected_faces))
                  ELSE NoMatches)

\* the faces of the photo whether or not the detection raised
Detected_IgnoringErrors(req) == DetectedFaces(req.found)

\* lines 122-142: detected_faces, [] when detect_all_faces raised
Detected(req) ==
    IF req.detect_ok THEN DetectedFaces(req.found) ELSE << >>

\* upload that takes every student of the teacher for the roster
upload_AllStudents(req) ==
    AfterDetection(req, Detected(req), TeacherStudents(req.user))

\* lines 96-147: the teacher's students and the faces of the photo
upload(req) ==
    AfterDetection(req, Detected(req), StudentsWithFaces(TeacherStudents(req.user)))

\* the attendance loops have one iteration for each student of the roster,
\* when they are reached at all
Iterations(user, found) ==
    IF Len(found) > 0 /\ ~MatchingRaises(StudentsWithFaces(TeacherStudents(user)))
    THEN Len(StudentsWithFaces(TeacherStudents(user)))
    ELSE 0

NoRequest ==
    [op |-> "none", user |-> 0, status |-> "ok", found |-> << >>, error |-> FALSE,
     entered |-> FALSE, raised |-> FALSE, absent_listed |-> FALSE, failed_at |-> 0, written |-> 0,
     faces_detected |-> 0,
     present_ids |-> {}, absent_ids |-> {}, matches |-> << >>,
     students_matched |-> 0, attendance_marked |-> 0, absent_marked |-> 0,
     synced |-> FALSE]

\* the request before the last one, as far as later requests are compared to it
Summary(answer) ==
    [op |-> answer.op, user |-> answer.user, status |-> answer.status,
     entered |-> answer.entered, failed_at |-> answer.failed_at,
     present_ids |-> answer.present_ids, absent_ids |-> answer.absent_ids]

\* --------------------------------------- images.py: what the user is told
Flash(category, message) == [category |-> category, message |-> message]

\* FinalMessage that does not look at the error of the detection
FinalMessage_WithoutError(answer) ==
    IF answer.faces_detected > 0
    THEN Flash(IF answer.attendance_marked > 0 THEN "success" ELSE "info",
               <<"Image uploaded successfully!", "Face Recognition: face(s) detected">>)
    ELSE Flash("info", <<"Image uploaded successfully!",
                         "No faces detected in image. Please upload a clear group photo.">>)

\* lines 316-346: the message flashed after the commit
FinalMessage(answer) ==
    IF answer.error
    THEN Flash("warning", <<"Image uploaded successfully!", "Face Recognition Error">>)
    ELSE IF answer.faces_detected > 0
    THEN Flash(IF answer.attendance_marked > 0 THEN "success" ELSE "info",
               <<"Image uploaded successfully!",
                 IF answer.students_matched > 0
                 THEN IF answer.attendance_marked > 0
                      THEN "Face Recognition: face(s) detected, student(s) matched. Attendance: marked Present, marked Absent."
                      ELSE "Face Recognition: face(s) detected, student(s) matched. "
                 ELSE "Face Recognition: face(s) detected. No students matched - please ensure students have face images uploaded in their profiles.">>)
    ELSE Flash("info", <<"Image uploaded successfully!",
                         "No faces detected in image. Please upload a clear group photo.">>)

\* lines 327-334: the number in '{students_matched} student(s) matched', when
\* the message has it
MatchedShown(answer) ==
    IF ~answer.error /\ answer.faces_detected > 0 /\ answer.students_matched > 0
    THEN FloatRepr(answer.students_matched)
    ELSE << >>

\* line 265: flashed when there are faces and no student has an embedding
RosterMessage(answer) ==
    IF answer.faces_detected > 0 /\ ~answer.entered
    THEN <<Flash("info", <<"No students with face images found. Please upload face images for students first in their profiles.">>)>>
    ELSE << >>

\* everything an upload flashes: lines 265 and 316-346, or 352
Flashes(answer) ==
    IF answer.status = "error"
    THEN RosterMessage(answer) \o <<Flash("danger", <<"Error processing image">>)>>
    ELSE RosterMessage(answer) \o <<FinalMessage(answer)>>

\* lines 92-93 and 257-261: the files; lines 307-308 and 350-353: commit,
\* or answer the error
Finish(r) ==
    /\ disk' = disk \cup r.written
    /\ attendance' = IF r.committed THEN r.session ELSE attendance
    /\ uploads' = IF r.committed THEN Append(uploads, r.image_upload) ELSE uploads
    /\ last' = r.answer

Upload(user, file, found, detect_ok, fail_kind, fail_at) ==
    /\ allowed_file(file)
    /\ fail_kind = "none" => fail_at = 0
    /\ fail_kind # "none" => detect_ok /\ fail_at \in 1 .. Iterations(user, found)
    /\ Finish(upload([user |-> user, file |-> file, found |-> found,
                      detect_ok |-> detect_ok,
                      fail_kind |-> fail_kind, fail_at |-> fail_at]))
    /\ prev' = Summary(last)
    /\ clock' = clock + 1
    /\ UNCHANGED <<users, sessions, regs, students, today, inflight, photos, probe>>

\* ------------------------------------------------- images.py: delete
\* POST /images/delete/<id> by a principal, of a row that exists
Delete(actor, id) ==
    /\ actor \in Principals
    /\ \E i \in DOMAIN uploads :
          /\ uploads[i].id = id
          /\ disk' = disk \ Written(uploads[i].file_path, uploads[i].face_annotated_path)
    /\ uploads' = SelectSeq(uploads, LAMBDA image : image.id # id)
    /\ last' = [NoRequest EXCEPT !.op = "delete", !.user = actor]
    /\ prev' = Summary(last)
    /\ clock' = clock + 1
    /\ UNCHANGED <<users, sessions, regs, students, attendance, today, inflight, photos, probe>>

\* --------------------------------------------------- attendance.py: mark
\* MarkWrite that inserts a row whether or not there is one
MarkWrite_AlwaysInsert(att, existing_record, student, status, user, now) ==
    att \cup {Attendance(att, student, today, status, user, now)}

\* MarkWrite that leaves a row that exists as it is
MarkWrite_KeepExisting(att, existing_record, student, status, user, now) ==
    IF existing_record # {} THEN att
    ELSE att \cup {Attendance(att, student, today, status, user, now)}

\* the body of the loop "for student in students" for one posted status
MarkWrite(att, existing_record, student, status, user, now) ==
    IF existing_record # {}
    THEN (att \ {First(existing_record)}) \cup
         {[First(existing_record) EXCEPT !.status = status, !.last_modified = now]}
    ELSE att \cup {Attendance(att, student, today, status, user, now)}

\* one iteration: form maps the student ids that carry a valid status_<id>
\* value to that value
MarkOne(att, student, form, user, now) ==
    IF student \notin DOMAIN form THEN att
    ELSE MarkWrite(att, AttendanceFor(att, student, today), student,
                   form[student] = "present", user, now)

RECURSIVE MarkLoop(_, _, _, _, _, _)
MarkLoop(att, teacher_students, form, n, user, now) ==
    IF n = 0 THEN att
    ELSE MarkOne(MarkLoop(att, teacher_students, form, n - 1, user, now),
                 teacher_students[n], form, user, now)

Forms(user) ==
    UNION {[chosen -> {"present", "absent"}] :
              chosen \in SUBSET {s \in StudentIds : students[s].teacher_id = user}}

Mark(user, form) ==
    /\ attendance' = MarkLoop(attendance, TeacherStudents(user), form,
                              Cardinality({s \in StudentIds : students[s].teacher_id = user}),
                              user, clock + 1)
    /\ last' = [NoRequest EXCEPT !.op = "mark", !.user = user, !.synced = TRUE]
    /\ prev' = Summary(last)
    /\ clock' = clock + 1
    /\ UNCHANGED <<disk, users, sessions, regs, students, uploads, today, inflight, photos, probe>>

\* --------------------------------------------------- attendance.py: edit
\* the values a form can carry in its status field
StatusValues == {"present", "absent", "late"}

\* POST /attendance/edit/<id> of a record that exists
Edit(user, id, status) ==
    /\ \E attendance_record \in attendance :
          /\ attendance_record.id = id
          /\ user \in Principals \/ user = attendance_record.marked_by
          /\ attendance' =
                IF status \in {"present", "absent"}
                THEN (attendance \ {attendance_record}) \cup
                     {[attendance_record EXCEPT !.status = (status = "present"),
                                                !.last_modified = clock + 1]}
                ELSE attendance
    /\ last' = [NoRequest EXCEPT !.op = "edit", !.user = user]
    /\ prev' = Summary(last)
    /\ clock' = clock + 1
    /\ UNCHANGED <<disk, users, sessions, regs, students, uploads, today, inflight, photos, probe>>

\* ---------------------------------------------------------------- auth.py
MaxRegistrations == 2     \* accounts created by the register requests

UserIds == 1 .. (Cardinality(Teachers \cup Principals) + MaxRegistrations)

\* no User row of this id, no account of this serial number
NoAccount == [role |-> "none", is_approved |-> FALSE, serial |-> 0]
NoReg == [origin |-> "none", approved |-> FALSE, rejected |-> FALSE,
          logged_in |-> FALSE, denied |-> FALSE]

\* the accounts of the fixture: approved teachers and principals
Accounts ==
    [id \in UserIds |->
        IF id \in Teachers THEN [role |-> "teacher", is_approved |-> TRUE, serial |-> 0]
        ELSE IF id \in Principals
        THEN [role |-> "principal", is_approved |-> TRUE, serial |-> 0]
        ELSE NoAccount]

InitAccounts ==
    /\ users = Accounts
    /\ sessions = {}
    /\ regs = [n \in 1 .. MaxRegistrations |-> NoReg]

\* current_user of a request with this session: load_user(id)
Authenticated(id) == id \in sessions /\ users[id] # NoAccount

\* @login_required @principal_required
principal_required(actor) ==
    Authenticated(actor) /\ users[actor].role = "principal"

\* the primary key of the next User row: one more than the greatest in use
NextUserId ==
    LET used == {id \in UserIds : users[id] # NoAccount}
    IN IF used = {} THEN 1 ELSE (CHOOSE id \in used : \A o \in used : o <= id) + 1

\* the serial number of the next account created
NextSerial == Cardinality({n \in DOMAIN regs : regs[n] # NoReg}) + 1

\* db.session.add(user); db.session.commit()
Created(role, is_approved, origin) ==
    /\ NextUserId \in UserIds
    /\ NextSerial \in DOMAIN regs
    /\ users' = [users EXCEPT ![NextUserId] =
                    [role |-> role, is_approved |-> is_approved, serial |-> NextSerial]]
    /\ regs' = [regs EXCEPT ![NextSerial] = [NoReg EXCEPT !.origin = origin]]
    /\ UNCHANGED <<disk, students, attendance, uploads, today, clock, last, prev,
                   inflight, photos, probe, sessions>>

\* register: of a browser that is not logged in
register ==
    /\ NextUserId \in UserIds
    /\ Created("teacher", FALSE, "register")

register_teacher(actor) ==
    /\ principal_required(actor)
    /\ Created("teacher", TRUE, "register_teacher")

register_principal(actor) ==
    /\ principal_required(actor)
    /\ Created("principal", TRUE, "register_principal")

\* whether login lets the user in
Admitted_Pending(user, password_ok) == user # NoAccount /\ password_ok

Admitted(user, password_ok) ==
    /\ user # NoAccount
    /\ password_ok
    /\ ~(user.role = "teacher" /\ ~user.is_approved)

\* what is known of the user's account after the login request
Noted(user, admitted) ==
    IF user.serial = 0 THEN regs
    ELSE IF admitted THEN [regs EXCEPT ![user.serial].logged_in = TRUE]
    ELSE [regs EXCEPT ![user.serial].denied = TRUE]

\* login with the username of the row of this id, from a browser that is
\* not logged in
login(id, password_ok) ==
    /\ id \notin sessions
    /\ sessions' = IF Admitted(users[id], password_ok) THEN sessions \cup {id}
                   ELSE sessions
    /\ regs' = Noted(users[id], Admitted(users[id], password_ok))
    /\ UNCHANGED <<disk, students, attendance, uploads, today, clock, last, prev,
                   inflight, photos, probe, users>>

logout(id) ==
    /\ id \in sessions
    /\ sessions' = sessions \ {id}
    /\ UNCHANGED <<disk, students, attendance, uploads, today, clock, last, prev,
                   inflight, photos, probe, users, regs>>

approve_teacher(actor, id) ==
    /\ principal_required(actor)
    /\ users[id] # NoAccount
    /\ users[id].role = "teacher"
    /\ ~users[id].is_approved
    /\ users' = [users EXCEPT ![id].is_approved = TRUE]
    /\ regs' = [regs EXCEPT ![users[id].serial].approved = TRUE]
    /\ UNCHANGED <<disk, students, attendance, uploads, today, clock, last, prev,
                   inflight, photos, probe, sessions>>

\* db.session.delete(user); db.session.commit(), or the rollback when the
\* database refuses
Deleted(id, refused, rejected) ==
    /\ users' = IF refused THEN users ELSE [users EXCEPT ![id] = NoAccount]
    /\ regs' = IF refused \/ ~rejected \/ users[id].serial = 0 THEN regs
               ELSE [regs EXCEPT ![users[id].serial].rejected = TRUE]
    /\ UNCHANGED <<disk, students, attendance, uploads, today, clock, last, prev,
                   inflight, photos, probe, sessions>>

reject_teacher(actor, id, refused) ==
    /\ principal_required(actor)
    /\ users[id] # NoAccount
    /\ users[id].role = "teacher"
    /\ ~users[id].is_approved
    /\ Deleted(id, refused, TRUE)

\* delete_user without the check of the own account
MayDelete_Anyone(actor, id) == users[id] # NoAccount

\* get_or_404, and: if user.id == current_user.id: 'You cannot delete your
\* own account'
MayDelete(actor, id) == users[id] # NoAccount /\ id # actor

delete_user(actor, id, refused) ==
    /\ principal_required(actor)
    /\ MayDelete(actor, id)
    /\ Deleted(id, refused, FALSE)

\* the accounts that ask: the principals and the accounts created since (the
\* teachers of the fixture stay away)
Visitors == UserIds \ Teachers

NextAuth ==
    \/ register
    \/ \E actor \in Visitors : register_teacher(actor)
    \/ \E actor \in Visitors : register_principal(actor)
    \/ \E id \in Visitors, password_ok \in BOOLEAN : login(id, password_ok)
    \/ \E id \in Visitors : logout(id)
    \/ \E actor \in Visitors, id \in UserIds : approve_teacher(actor, id)
    \/ \E actor \in Visitors, id \in UserIds, refused \in BOOLEAN :
          reject_teacher(actor, id, refused)
    \/ \E actor \in Visitors, id \in UserIds, refused \in BOOLEAN :
          delete_user(actor, id, refused)

\* ------------------------------------------------------------------- Init
\* what students.add stores for an enrollment photo with a face
StoredEmbedding(v) ==
    JsonDumps(embedding_to_json(NdArray(EmbeddingDim, v)))

\* The students are enrolled, each with no embedding or a stored one.
EnrolledStudents ==
    {st \in [StudentIds -> [teacher_id : Teachers,
                            face_embedding : {NULL} \cup
                                {StoredEmbedding(v) : v \in RefVectors}]] :
        \A s \in StudentIds : st[s].teacher_id = TeacherOf[s]}

\* The Attendance table as the earlier requests of the day left it: for any
\* of the students one row, written by the student's teacher at time 0.
RECURSIVE RowsFor(_, _, _)
RowsFor(marked, todo, att) ==
    IF todo = << >> THEN att
    ELSE RowsFor(marked, Tail(todo),
                 att \cup {Attendance(att, Head(todo), 1, marked[Head(todo)],
                                      TeacherOf[Head(todo)], 0)})

EarlierTables ==
    {RowsFor(marked, SortedSeq(DOMAIN marked), {}) :
        marked \in UNION {[chosen -> BOOLEAN] : chosen \in SUBSET StudentIds}}

\* the two requests that may be served at the same time
Requests == {1, 2}

IdleRequest ==
    [pc |-> "idle", user |-> 0, now |-> 0, faces_detected |-> 0, m |-> NoMatches,
     present_seq |-> << >>, absent_seq |-> << >>, done |-> 0,
     created |-> {}, changed |-> {}, present_writes |-> 0, absent_writes |-> 0,
     broken |-> FALSE, status |-> "ok"]

\* the enrollment photos of a student: whether one of them gave an
\* embedding, and the embedding of the latest one that did
\* what a student's enrollment photos have yielded so far: whether one of them
\* yielded an embedding, the latest embedding yielded and the one before it,
\* whether one of them yielded none, and whether the face of one of them had
\* an embedding of another length than EmbeddingDim; the file face_image_path
\* names and the file the stored embedding was extracted from, each by the
\* time of the request that saved it (0: none)
NoPhotos ==
    [detected |-> FALSE, latest |-> NULL, earlier |-> NULL, refused |-> FALSE,
     misshapen |-> FALSE, face_image_path |-> 0, source |-> 0]

PhotosOf(student) ==
    IF student.face_embedding = NULL THEN NoPhotos
    ELSE [NoPhotos EXCEPT !.detected = TRUE,
                          !.latest = json_to_embedding(student.face_embedding)]

NoProbe == [stage |-> "none", input |-> NULL, text |-> NULL, output |-> NULL]

\* the file of the group photo, as the browser names it
Photo == [stem |-> <<"c", "l", "a", "s", "s">>, ext |-> "jpg"]

\* a day in progress
Init ==
    /\ students \in EnrolledStudents
    /\ photos = [s \in StudentIds |-> PhotosOf(students[s])]
    /\ inflight = [r \in Requests |-> IdleRequest]
    /\ probe = NoProbe
    /\ InitAccounts
    /\ disk = {}
    /\ attendance \in EarlierTables
    /\ uploads = << >>
    /\ today = 1
    /\ clock = 0
    /\ last = NoRequest
    /\ prev = Summary(NoRequest)

\* a fresh day
InitFresh ==
    /\ Init
    /\ attendance = {}

\* one request served on a day in progress
FirstUpload(user, found, detect_ok, fail_kind, fail_at) ==
    /\ last.op = "none"
    /\ Upload(user, Photo, found, detect_ok, fail_kind, fail_at)

FirstMark(user, form) ==
    /\ last.op = "none"
    /\ Mark(user, form)

FirstEdit(user, id, status) ==
    /\ last.op = "none"
    /\ Edit(user, id, status)

Next ==
    \/ \E user \in Teachers \cup Principals, id \in 1 .. Cardinality(StudentIds),
          status \in StatusValues : FirstEdit(user, id, status)
    \/ \E user \in Teachers, found \in SeqsUpTo(FaceVectors, MaxFaces),
          detect_ok \in BOOLEAN, fail_kind \in FailKinds,
          fail_at \in 0 .. Cardinality(StudentIds) :
            FirstUpload(user, found, detect_ok, fail_kind, fail_at)
    \/ \E user \in Teachers : \E form \in Forms(user) : FirstMark(user, form)

Spec == Init /\ [][Next]_vars

\* two photo uploads in a row on a fresh day, both running to completion
RepeatedUpload(user, found, detect_ok) ==
    /\ prev.op = "none"
    /\ Upload(user, Photo, found, detect_ok, "none", 0)

NextRepeat ==
    \E user \in Teachers, found \in SeqsUpTo(FaceVectors, MaxFaces),
       detect_ok \in BOOLEAN :
         RepeatedUpload(user, found, detect_ok)

\* the day after a day of attendance: every student has a row of the day
\* before, and any of them one of today
RECURSIVE RowsOn(_, _, _, _)
RowsOn(date, marked, todo, att) ==
    IF todo = << >> THEN att
    ELSE RowsOn(date, marked, Tail(todo),
                att \cup {Attendance(att, Head(todo), date, marked[Head(todo)],
                                     TeacherOf[Head(todo)], 0)})

Yesterday ==
    RowsOn(1, [s \in StudentIds |-> s # 2], SortedSeq(StudentIds), {})

InitDays ==
    /\ students \in EnrolledStudents
    /\ photos = [s \in StudentIds |-> PhotosOf(students[s])]
    /\ inflight = [r \in Requests |-> IdleRequest]
    /\ probe = NoProbe
    /\ InitAccounts
    /\ disk = {}
    /\ attendance \in
          {RowsOn(2, marked, SortedSeq(DOMAIN marked), Yesterday) :
              marked \in UNION {[chosen -> BOOLEAN] : chosen \in SUBSET StudentIds}}
    /\ uploads = << >>
    /\ today = 2
    /\ clock = 0
    /\ last = NoRequest
    /\ prev = Summary(NoRequest)

SpecDays == InitDays /\ [][Next]_vars

\* the accounts and the sessions, on a day without attendance
InitAuth ==
    /\ students = [s \in StudentIds |->
                      [teacher_id |-> TeacherOf[s], face_embedding |-> NULL]]
    /\ photos = [s \in StudentIds |-> NoPhotos]
    /\ inflight = [r \in Requests |-> IdleRequest]
    /\ probe = NoProbe
    /\ InitAccounts
    /\ disk = {}
    /\ attendance = {}
    /\ uploads = << >>
    /\ today = 1
    /\ clock = 0
    /\ last = NoRequest
    /\ prev = Summary(NoRequest)

SpecAuth == InitAuth /\ [][NextAuth]_vars

SpecRepeat == InitFresh /\ [][NextRepeat]_vars

\* ------------------------------------------ photos uploaded and deleted
MaxFileRequests == 3        \* upload and delete requests in a row

\* the names the browsers give the files they upload
FileNames ==
    {[stem |-> <<"a", " ", "b">>, ext |-> "jpg"],
     [stem |-> <<"a", "_", "b">>, ext |-> "jpg"],
     [stem |-> <<"c">>, ext |-> "png"],
     [stem |-> <<"c">>, ext |-> "exe"]}

\* what detect_all_faces finds in them: no face, a face of the enrolled
\* students, another face
GroupPhotos == {<< >>, <<VecA>>, <<VecC>>}

\* a fresh day, every student enrolled with the same photo
InitFiles ==
    /\ InitFresh
    /\ \A s \in StudentIds : students[s].face_embedding = StoredEmbedding(VecA)

FilesUpload(user, file, found) ==
    /\ clock < MaxFileRequests
    /\ Upload(user, file, found, TRUE, "none", 0)

FilesDelete(actor, id) ==
    /\ clock < MaxFileRequests
    /\ Delete(actor, id)

NextFiles ==
    \/ \E user \in Teachers, file \in FileNames,
          found \in GroupPhotos : FilesUpload(user, file, found)
    \/ \E actor \in Principals, id \in 1 .. MaxFileRequests : FilesDelete(actor, id)

SpecFiles == InitFiles /\ [][NextFiles]_vars

\* ------------------------------------ stored texts of any origin
\* The face_embedding column is free text.  Besides what add and edit
\* store, a row may hold the text of an empty list, of a vector of another
\* length, or a text that is not the JSON of a list of numbers.
EmptyText == JsonDumps(PyList(0, << >>))
ShortText == JsonDumps(PyList(Len(VecA), VecA))
MalformedText ==
    [tag |-> "str", valid |-> FALSE, json |-> "none", shape |-> 0, data |-> << >>]

InitStored ==
    /\ students \in
          {st \in [StudentIds -> [teacher_id : Teachers,
                                  face_embedding :
                                      {NULL, EmptyText, ShortText, MalformedText}
                                          \cup {StoredEmbedding(v) : v \in RefVectors}]] :
              \A s \in StudentIds : st[s].teacher_id = TeacherOf[s]}
    /\ photos = [s \in StudentIds |-> NoPhotos]
    /\ inflight = [r \in Requests |-> IdleRequest]
    /\ probe = NoProbe
    /\ InitAccounts
    /\ disk = {}
    /\ attendance = {}
    /\ uploads = << >>
    /\ today = 1
    /\ clock = 0
    /\ last = NoRequest
    /\ prev = Summary(NoRequest)

StoredUpload(user, found, detect_ok, fail_kind, fail_at) ==
    /\ last.op = "none"
    /\ Upload(user, Photo, found, detect_ok, fail_kind, fail_at)

NextStored ==
    \E user \in Teachers, found \in SeqsUpTo(FaceVectors, MaxFaces),
       detect_ok \in BOOLEAN, fail_kind \in FailKinds,
       fail_at \in 0 .. Cardinality(StudentIds) :
         StoredUpload(user, found, detect_ok, fail_kind, fail_at)

SpecStored == InitStored /\ [][NextStored]_vars

\* ------------------------- face_recognition.py: an embedding stored and read
MaxLen == 2           \* leading components of the embedding converted
MaxComponent == 12    \* greatest magnitude of a component

\* the non-empty arrays converted: of their leading components alone, or of
\* EmbeddingDim components
Embeddings ==
    {NdArray(n, v) : v \in SeqsUpTo(-MaxComponent .. MaxComponent, MaxLen) \ {<< >>},
                     n \in {EmbeddingDim}}
        \cup {NdArray(Len(v), v) :
                  v \in SeqsUpTo(-MaxComponent .. MaxComponent, MaxLen) \ {<< >>}}

InitRoundTrip ==
    /\ students = [s \in StudentIds |->
                      [teacher_id |-> TeacherOf[s], face_embedding |-> NULL]]
    /\ photos = [s \in StudentIds |-> NoPhotos]
    /\ inflight = [r \in Requests |-> IdleRequest]
    /\ probe \in {[NoProbe EXCEPT !.stage = "input", !.input = e] : e \in Embeddings}
    /\ InitAccounts
    /\ disk = {}
    /\ attendance = {}
    /\ uploads = << >>
    /\ today = 1
    /\ clock = 0
    /\ last = NoRequest
    /\ prev = Summary(NoRequest)

\* json.dumps(face_rec.embedding_to_json(embedding))
Serialize ==
    /\ probe.stage = "input"
    /\ probe' = [probe EXCEPT !.stage = "stored",
                              !.text = JsonDumps(embedding_to_json(probe.input))]
    /\ UNCHANGED <<disk, users, sessions, regs, students, attendance, uploads, today, clock, last, prev,
                   inflight, photos>>

\* face_rec.json_to_embedding(student.face_embedding)
Deserialize ==
    /\ probe.stage = "stored"
    /\ probe' = [probe EXCEPT !.stage = "read",
                              !.output = json_to_embedding(probe.text)]
    /\ UNCHANGED <<disk, users, sessions, regs, students, attendance, uploads, today, clock, last, prev,
                   inflight, photos>>

NextRoundTrip ==
    \/ Serialize
    \/ Deserialize

SpecRoundTrip == InitRoundTrip /\ [][NextRoundTrip]_vars

\* the texts json_to_embedding may be given: of lists of numbers, of values
\* that are no list, and text that is not JSON
Texts ==
    {JsonDumps(embedding_to_json(e)) : e \in Embeddings}
        \cup {NumberText(x) : x \in -MaxComponent .. MaxComponent}
        \cup {StringText(FloatRepr(x)) : x \in -MaxComponent .. MaxComponent}
        \cup {StringText(<<"a", "b", "c">>), StringText(<< >>), StringText(<<"-">>),
              NullText, ObjectText, EmptyText, MalformedText}

InitDeserialize ==
    /\ students = [s \in StudentIds |->
                      [teacher_id |-> TeacherOf[s], face_embedding |-> NULL]]
    /\ photos = [s \in StudentIds |-> NoPhotos]
    /\ inflight = [r \in Requests |-> IdleRequest]
    /\ probe \in {[NoProbe EXCEPT !.stage = "stored", !.text = t] : t \in Texts}
    /\ InitAccounts
    /\ disk = {}
    /\ attendance = {}
    /\ uploads = << >>
    /\ today = 1
    /\ clock = 0
    /\ last = NoRequest
    /\ prev = Summary(NoRequest)

SpecDeserialize == InitDeserialize /\ [][Deserialize]_vars

\* ------------------------- face_recognition.py: a student sought in a photo
\* the vectors of the faces of a group photo, some of them opposite to the
\* enrolled ones
VecNegA == <<-5, 0, 0, 0>>
VecNegD == <<-3, -4, 0, 0>>
GroupVectors == FaceVectors \cup {VecNegA, VecNegD}

\* thresholds asked for: below zero, zero, the default and others above zero
Thresholds == {Rat(-1, 2), Zero, Rat(1, 2), MatchThreshold, Rat(9, 10)}

\* the student's embedding as an array, as its stored text, absent, or a text
\* that is not JSON
Sought ==
    {NdArray(EmbeddingDim, v) : v \in RefVectors}
        \cup {StoredEmbedding(v) : v \in RefVectors}
        \cup {NULL, MalformedText}

InitFind ==
    /\ students = [s \in StudentIds |->
                      [teacher_id |-> TeacherOf[s], face_embedding |-> NULL]]
    /\ photos = [s \in StudentIds |-> NoPhotos]
    /\ inflight = [r \in Requests |-> IdleRequest]
    /\ probe \in {[NoProbe EXCEPT !.stage = "asked",
                                  !.input = [student_embedding |-> e,
                                             detect_ok |-> ok,
                                             found |-> f,
                                             threshold |-> t]] :
                     e \in Sought, ok \in BOOLEAN,
                     f \in SeqsUpTo(GroupVectors, MaxFaces), t \in Thresholds}
    /\ InitAccounts
    /\ disk = {}
    /\ attendance = {}
    /\ uploads = << >>
    /\ today = 1
    /\ clock = 0
    /\ last = NoRequest
    /\ prev = Summary(NoRequest)

FindStudent ==
    /\ probe.stage = "asked"
    /\ probe' = [probe EXCEPT
                    !.stage = "answered",
                    !.output = find_student_in_group(probe.input.student_embedding,
                                                     probe.input.detect_ok,
                                                     probe.input.found,
                                                     probe.input.threshold)]
    /\ UNCHANGED <<disk, users, sessions, regs, students, attendance, uploads, today, clock, last, prev,
                   inflight, photos>>

SpecFind == InitFind /\ [][FindStudent]_vars

\* ------------------------------------------ students.py: add and edit
MaxEnrollFaces == 2    \* faces the detector returns for an enrollment photo
MaxEnrollments == 3    \* add and edit requests served

\* no Student row of this id yet
NoRow == [teacher_id |-> 0, face_embedding |-> NULL]

\* a face the detector returns: its embedding, of EmbeddingDim components or
\* of another length, and the area of its bounding box
FaceObjects ==
    {[embedding |-> NdArray(n, v), area |-> a] :
        v \in RefVectors, n \in {EmbeddingDim, Len(VecA)}, a \in 1 .. 2}

\* form.face_image.data: no file, a file that cannot be processed, or a file
\* with the faces the detector returns for it
FaceImages ==
    {[given |-> FALSE, readable |-> FALSE, faces |-> << >>],
     [given |-> TRUE, readable |-> FALSE, faces |-> << >>]}
        \cup {[given |-> TRUE, readable |-> TRUE, faces |-> f] :
                  f \in SeqsUpTo(FaceObjects, MaxEnrollFaces)}

\* max(faces, key=area): the first face of the greatest area
Largest(faces) ==
    faces[CHOOSE i \in 1 .. Len(faces) :
              \A j \in 1 .. Len(faces) :
                  /\ faces[j].area <= faces[i].area
                  /\ j < i => faces[j].area < faces[i].area]

\* final verification that stores an embedding of any length
Verified_AnyShape(embedding) == embedding

\* if embedding.shape[0] != 512: return None, None, None
Verified(embedding) ==
    IF embedding.shape # EmbeddingDim THEN NULL ELSE embedding

\* the embedding of detect_and_extract_face's result (the vectors stand for
\* their directions, which normalisation keeps)
detect_and_extract_face(image) ==
    IF ~image.readable THEN Raised
    ELSE IF Len(image.faces) = 0 THEN NULL
    ELSE Verified(Largest(image.faces).embedding)

\* what the handlers see of the enrollment photo: None without a file
Extracted(image) ==
    IF image.given THEN detect_and_extract_face(image) ELSE NULL

\* add: the embedding of the new row
AddedEmbedding(embedding) ==
    IF embedding.tag = "ndarray"
    THEN JsonDumps(embedding_to_json(embedding))
    ELSE NULL

\* edit that clears the embedding when the new photo yields none
EditedEmbedding_Clearing(student, embedding) ==
    IF embedding.tag = "ndarray"
    THEN JsonDumps(embedding_to_json(embedding))
    ELSE NULL

\* edit: the embedding of the row after the request
EditedEmbedding(student, embedding) ==
    IF embedding.tag = "ndarray"
    THEN JsonDumps(embedding_to_json(embedding))
    ELSE student.face_embedding

\* the detector's embedding of the photo's face has another length
Misshapen(image) ==
    /\ image.readable
    /\ Len(image.faces) > 0
    /\ Largest(image.faces).embedding.shape # EmbeddingDim

\* what the student's photos have yielded, after this one, saved at the
\* time now: student.face_image_path = relative_path in every branch
Yielded(before, image, embedding, now) ==
    IF ~image.given THEN before
    ELSE IF embedding.tag = "ndarray"
    THEN [before EXCEPT !.detected = TRUE, !.latest = embedding,
                        !.earlier = before.latest,
                        !.misshapen = @ \/ Misshapen(image),
                        !.face_image_path = now, !.source = now]
    ELSE [before EXCEPT !.refused = TRUE,
                        !.misshapen = @ \/ Misshapen(image),
                        !.face_image_path = now]

\* db.session.commit() of the row
Enrolled(id, row, image, embedding) ==
    /\ students' = [students EXCEPT ![id] = row]
    /\ photos' = [photos EXCEPT ![id] = Yielded(photos[id], image, embedding, clock + 1)]
    /\ clock' = clock + 1
    /\ UNCHANGED <<disk, users, sessions, regs, attendance, uploads, today, last, prev, inflight, probe>>

\* the id the next Student row is given
NextStudentId == CHOOSE s \in StudentIds :
              /\ students[s] = NoRow
              /\ \A t \in StudentIds : t < s => students[t] # NoRow

StudentAdd(user, image) ==
    /\ clock < MaxEnrollments
    /\ user \in Teachers
    /\ \E s \in StudentIds : students[s] = NoRow
    /\ LET embedding == Extracted(image)
       IN Enrolled(NextStudentId,
                   [teacher_id |-> user, face_embedding |-> AddedEmbedding(embedding)],
                   image, embedding)

StudentEdit(user, id, image) ==
    /\ clock < MaxEnrollments
    /\ students[id] # NoRow
    /\ user \in Principals \/ students[id].teacher_id = user
    /\ LET embedding == Extracted(image)
       IN Enrolled(id,
                   [students[id] EXCEPT
                       !.face_embedding = EditedEmbedding(students[id], embedding)],
                   image, embedding)

InitEnroll ==
    /\ students = [s \in StudentIds |-> NoRow]
    /\ photos = [s \in StudentIds |-> NoPhotos]
    /\ inflight = [r \in Requests |-> IdleRequest]
    /\ probe = NoProbe
    /\ InitAccounts
    /\ disk = {}
    /\ attendance = {}
    /\ uploads = << >>
    /\ today = 1
    /\ clock = 0
    /\ last = NoRequest
    /\ prev = Summary(NoRequest)

NextEnroll ==
    \/ \E user \in Teachers, image \in FaceImages : StudentAdd(user, image)
    \/ \E user \in Teachers \cup Principals, id \in StudentIds, image \in FaceImages :
          StudentEdit(user, id, image)

SpecEnroll == InitEnroll /\ [][NextEnroll]_vars

\* ------------------------------------- images.py: uploads served together
\* Each request has its own session: it reads the committed rows and, over
\* them, the rows it has added and changed itself; its pending rows reach
\* the database when the session flushes (before its next query, and at
\* commit), and its changes become visible to the other at commit.
MaxConcurrentFaces == 1     \* faces in a photo of the uploads served together

\* the database without the constraint
Conflict_Never(att, created) == FALSE

\* UniqueConstraint('date', 'student_id'): the INSERT of a pending row is
\* refused when the table has a row of its student and date
Conflict(att, created) ==
    \E c \in created : \E q \in att :
        q.student_id = c.student_id /\ q.date = c.date

\* what the session of a request sees
View(req) ==
    {q \in attendance : \A c \in req.changed : c.id # q.id}
        \cup req.changed \cup req.created

\* lines 186 and 213-214, for a request of its own
Listed(user, faces_detected, students_with_faces, m, entered) ==
    [IdleRequest EXCEPT
        !.pc = "loops", !.user = user, !.now = clock + 1,
        !.faces_detected = faces_detected, !.m = m,
        !.present_seq = SortedSeq(m.matched_students),
        !.absent_seq = IF entered /\ ~m.raised
                       THEN UnmatchedStudentIds(students_with_faces, m.matched_students)
                       ELSE << >>]

\* lines 143-183, for a request of its own
Started(user, detected_faces, students_with_faces) ==
    Listed(user, Len(detected_faces), students_with_faces,
           IF Entered(detected_faces, students_with_faces)
           THEN IF MatchingRaises(students_with_faces)
                THEN RaisedMatches
                ELSE MatchFaces(detected_faces, students_with_faces, Len(detected_faces))
           ELSE NoMatches,
           Entered(detected_faces, students_with_faces))

\* the request arrives: detection and matching
UploadBegin(r, user, found) ==
    /\ inflight[r].pc = "idle"
    /\ \A q \in Requests : q < r => inflight[q].pc # "idle"
    /\ inflight' = [inflight EXCEPT ![r] =
          Started(user, DetectedFaces(found), StudentsWithFaces(TeacherStudents(user)))]
    /\ clock' = clock + 1
    /\ disk' = disk \cup {FilePath(secure_filename(Photo))}
    /\ UNCHANGED <<users, sessions, regs, students, attendance, uploads, today, last, prev, photos, probe>>

\* the session after one more iteration of the attendance loops
Stepped(req, view, after) ==
    [req EXCEPT
        !.done = @ + 1,
        !.created = @ \cup {x \in after.att \ view : \A y \in view : y.id # x.id},
        !.changed = @ \cup {x \in after.att \ view : \E y \in view : y.id = x.id},
        !.present_writes = after.present_writes,
        !.absent_writes = after.absent_writes]

Advance(req, view) ==
    Stepped(req, view,
            Iteration([att |-> view, present_writes |-> req.present_writes,
                       absent_writes |-> req.absent_writes],
                      req.present_seq, req.absent_seq, req.done + 1, req.user, req.now))

\* one iteration: the query flushes the pending rows first; a refused INSERT
\* raises, the inner except swallows it and the session is left unusable
UploadIteration(r) ==
    /\ inflight[r].pc = "loops"
    /\ ~inflight[r].broken
    /\ inflight[r].done < Len(inflight[r].present_seq) + Len(inflight[r].absent_seq)
    /\ inflight' = [inflight EXCEPT ![r] =
          IF Conflict(attendance, inflight[r].created)
          THEN [inflight[r] EXCEPT !.broken = TRUE]
          ELSE Advance(inflight[r], View(inflight[r]))]
    /\ UNCHANGED <<disk, users, sessions, regs, students, attendance, uploads, today, clock, last, prev, photos, probe>>

\* the rows of a committed session, the new ones with the keys the database
\* gives them
RECURSIVE Inserted(_, _)
Inserted(att, created) ==
    IF created = {} THEN att
    ELSE LET c == CHOOSE x \in created : \A y \in created : x.id <= y.id
         IN Inserted(att \cup {Attendance(att, c.student_id, c.date, c.status,
                                           c.marked_by, c.last_modified)},
                     created \ {c})

\* face_annotated_path of a request served together with another
AnnotatedOf(req) ==
    IF ~req.broken /\ Len(req.m.matches) > 0
    THEN AnnotatedPath(FilePath(secure_filename(Photo)))
    ELSE NULL

\* the ImageUpload row of a request served together with another
UploadRow(req) ==
    [id |-> NextImageId(uploads),
     date |-> today,
     file_name |-> secure_filename(Photo),
     file_path |-> FilePath(secure_filename(Photo)),
     face_annotated_path |-> AnnotatedOf(req),
     uploaded_by |-> req.user,
     faces_detected |-> req.faces_detected,
     students_matched |-> req.m.students_matched,
     attendance_marked_count |-> req.present_writes + req.absent_writes,
     face_matches_json |-> JsonDumpsMatches(PyList(Len(req.m.matches), req.m.matches))]

\* lines 307-308 and 350-353: the commit flushes; a refused INSERT, or a
\* session left unusable, raises and the request answers the error
Ended(r, req, fails) ==
    /\ disk' = disk \cup Written(FilePath(secure_filename(Photo)), AnnotatedOf(req))
    /\ attendance' = IF fails THEN attendance
                     ELSE Inserted({q \in attendance : \A c \in req.changed : c.id # q.id}
                                       \cup req.changed, req.created)
    /\ uploads' = IF fails THEN uploads ELSE Append(uploads, UploadRow(req))
    /\ inflight' = [inflight EXCEPT ![r] =
                      [req EXCEPT !.pc = "done",
                                  !.status = IF fails THEN "error" ELSE "ok"]]

UploadEnd(r) ==
    /\ inflight[r].pc = "loops"
    /\ \/ inflight[r].broken
       \/ inflight[r].done = Len(inflight[r].present_seq) + Len(inflight[r].absent_seq)
    /\ Ended(r, inflight[r],
             inflight[r].broken \/ Conflict(attendance, inflight[r].created))
    /\ UNCHANGED <<users, sessions, regs, students, today, clock, last, prev, photos, probe>>

NextConcurrent ==
    \/ \E r \in Requests, user \in Teachers,
          found \in SeqsUpTo(FaceVectors, MaxConcurrentFaces) :
            UploadBegin(r, user, found)
    \/ \E r \in Requests : UploadIteration(r)
    \/ \E r \in Requests : UploadEnd(r)

SpecConcurrent == InitFresh /\ [][NextConcurrent]_vars

\* ============================================================ properties
\* the roster of a teacher: the teacher's students with a reference embedding
Roster(user) ==
    {s \in StudentIds : students[s].teacher_id = user
                        /\ students[s].face_embedding # NULL}

\* a student's Attendance rows of today
RowsOf(att, s) == {r \in att : r.student_id = s /\ r.date = today}

\* the cosine similarity of a detected face to a student's reference
SimilarityTo(face, s) ==
    Cosine(face, json_to_embedding(students[s].face_embedding).data)

\* s has the greatest similarity to the face within the roster, and is the
\* first such student in roster order
FirstMaximum(face, s, roster) ==
    /\ s \in roster
    /\ \A t \in roster :
          /\ RatGE(SimilarityTo(face, s), SimilarityTo(face, t))
          /\ RatEQ(SimilarityTo(face, s), SimilarityTo(face, t)) => s <= t

\* the face scores highest against s, at or above the threshold
Claims(face, s, roster) ==
    FirstMaximum(face, s, roster) /\ RatGE(SimilarityTo(face, s), Rat(6, 10))

MatchesOfFace(i) == {k \in 1 .. Len(last.matches) : last.matches[k].face_index = i - 1}

\* the last request was an upload / this step is an upload
Uploaded == last.op = "upload"
UploadStep == clock' = clock + 1 /\ last'.op = "upload"

\* the upload entered the matching, ran both loops and committed
Completed ==
    /\ Uploaded /\ last.entered /\ ~last.raised
    /\ last.failed_at = 0 /\ last.status = "ok"

C2_OneRowEach ==
    Completed =>
        \A s \in Roster(last.user) :
            /\ Cardinality(RowsOf(attendance, s)) = 1
            /\ \A r \in RowsOf(attendance, s) : r.status <=> s \in last.present_ids

\* a matched student's earlier absent row became present (it is older than
\* an untouched row), and an unmatched student's row was created absent
C2_Witness ==
    /\ Completed
    /\ \E s \in last.present_ids : \E r \in RowsOf(attendance, s) :
          /\ r.status /\ r.last_modified = clock
          /\ \E q \in attendance : q.last_modified < clock /\ q.id > r.id
    /\ \E s \in last.absent_ids : \E r \in RowsOf(attendance, s) :
          /\ ~r.status /\ r.last_modified = clock
          /\ \A q \in attendance : q.id <= r.id

\* C3: a detected face has a MatchResult exactly if its greatest similarity
\* over the roster is at least 0.6, and present_ids is the set of students
\* the MatchResults name; a face below the threshold adds nothing.
C3_Threshold ==
    Uploaded =>
        /\ \A i \in 1 .. Len(last.found) :
              /\ Cardinality(MatchesOfFace(i)) <= 1
              /\ MatchesOfFace(i) # {} <=>
                    \E s \in Roster(last.user) :
                        RatGE(SimilarityTo(last.found[i], s), Rat(6, 10))
        /\ last.present_ids =
              {last.matches[k].student_id : k \in 1 .. Len(last.matches)}

\* roster = {S1: A}, one face at similarity 0.4
C3_Witness ==
    /\ Uploaded /\ last.user = 1 /\ last.entered
    /\ Roster(1) = {1}
    /\ last.found = <<VecC>>
    /\ SimilarityTo(VecC, 1) = Rat(10, 25)
    /\ last.matches = << >>
    /\ last.present_ids = {}
    /\ last.absent_ids = {1}

\* C4: the student a MatchResult names is in the roster, no student of the
\* roster is more similar to the face, and among the students that are as
\* similar it is the first in roster order; the similarity recorded is the
\* face's similarity to that student.
C4_FirstMaximum ==
    Uploaded =>
        \A k \in 1 .. Len(last.matches) :
            /\ FirstMaximum(last.found[last.matches[k].face_index + 1],
                            last.matches[k].student_id, Roster(last.user))
            /\ RatEQ(last.matches[k].similarity,
                     SimilarityTo(last.found[last.matches[k].face_index + 1],
                                  last.matches[k].student_id))

\* a face is matched while another student of the roster is exactly as similar
C4_Witness ==
    /\ Uploaded
    /\ \E k \in 1 .. Len(last.matches) : \E t \in Roster(last.user) :
          /\ t # last.matches[k].student_id
          /\ RatEQ(SimilarityTo(last.found[last.matches[k].face_index + 1], t),
                   last.matches[k].similarity)

\* C5: when two detected faces both score highest, at or above the
\* threshold, against the same student, both have a MatchResult naming that
\* student, the student is in present_ids, and after the upload completed
\* the student has exactly one Attendance row of today.
C5_TwoFacesOneStudent ==
    Completed =>
        \A s \in Roster(last.user) :
            LET claimants == {i \in 1 .. Len(last.found) :
                                 Claims(last.found[i], s, Roster(last.user))}
            IN  Cardinality(claimants) >= 2 =>
                    /\ \A i \in claimants :
                          \E k \in MatchesOfFace(i) : last.matches[k].student_id = s
                    /\ s \in last.present_ids
                    /\ Cardinality(RowsOf(attendance, s)) = 1

\* two faces of different similarity, S1 the only student of the roster
C5_Witness ==
    /\ Completed /\ last.user = 1
    /\ Roster(1) = {1}
    /\ Len(last.found) = 2
    /\ Claims(last.found[1], 1, Roster(1)) /\ Claims(last.found[2], 1, Roster(1))
    /\ ~RatEQ(SimilarityTo(last.found[1], 1), SimilarityTo(last.found[2], 1))
    /\ Len(last.matches) = 2
    /\ last.present_ids = {1}

C7_EmptyRoster ==
    [][(UploadStep /\ Roster(last'.user) = {}) =>
          /\ last'.matches = << >>
          /\ last'.present_ids = {}
          /\ last'.absent_ids = {}
          /\ attendance' = attendance]_vars

\* faces were detected, the teacher has students, none with an embedding
C7_Witness ==
    /\ Uploaded /\ last.faces_detected = MaxFaces
    /\ Roster(last.user) = {}
    /\ Cardinality({s \in StudentIds : students[s].teacher_id = last.user}) > 1
    /\ \E s \in StudentIds : students[s].teacher_id = last.user
                             /\ RowsOf(attendance, s) = {}

\* C8: no upload creates or changes an Attendance row of a student without
\* a reference embedding.
C8_NoEmbeddingUntouched ==
    [][UploadStep =>
          \A s \in StudentIds :
              students[s].face_embedding = NULL =>
                  {r \in attendance' : r.student_id = s}
                      = {r \in attendance : r.student_id = s}]_vars

\* the upload wrote rows of the roster while a student of the same teacher
\* without an embedding was marked present earlier, and another had no row
C8_Witness ==
    /\ Completed /\ last.written > 0
    /\ \E s \in StudentIds :
          /\ students[s].teacher_id = last.user
          /\ students[s].face_embedding = NULL
          /\ \E r \in RowsOf(attendance, s) : r.status /\ r.last_modified < clock

\* C9: an upload that runs the reconciliation with the present and absent
\* sets of the completed upload before it, for the same teacher and day,
\* creates no Attendance row, changes no status and no last_modified, and
\* counts no attendance write.
C9_Idempotent ==
    [][(/\ Completed
        /\ UploadStep
        /\ last'.entered /\ last'.failed_at = 0 /\ last'.status = "ok"
        /\ last'.user = last.user
        /\ last'.present_ids = last.present_ids
        /\ last'.absent_ids = last.absent_ids) =>
          /\ attendance' = attendance
          /\ last'.attendance_marked = 0
          /\ last'.written = 0]_vars

\* the second of two uploads with the same non-empty sets, the first of
\* which wrote the rows
C9_Witness ==
    /\ Completed
    /\ prev.op = "upload" /\ prev.entered /\ prev.failed_at = 0 /\ prev.status = "ok"
    /\ prev.user = last.user
    /\ prev.present_ids = last.present_ids /\ prev.absent_ids = last.absent_ids
    /\ last.present_ids # {} /\ last.absent_ids # {}
    /\ Len(uploads) = 2
    /\ uploads[1].attendance_marked_count > 1
    /\ uploads[2].attendance_marked_count = 0

\* C11: the Attendance table holds at most one row for a student and a
\* day: from any table that does, a manual marking, an edit of a record or
\* a photo upload leads to a table that does.
C11_AtMostOne ==
    \A r \in attendance : \A q \in attendance :
        (r.student_id = q.student_id /\ r.date = q.date) => r = q

\* every student has a row, one of them left by an earlier marking and
\* another written by this request
C11_Witness ==
    /\ last.op \in {"upload", "mark", "edit"}
    /\ \A s \in StudentIds : RowsOf(attendance, s) # {}
    /\ \E r \in attendance : r.last_modified = 0
    /\ \E r \in attendance : r.last_modified = clock /\ clock > 0

\* C12: when two uploads served at the same time have both found a student
\* without a row of the day and both added one, the database refuses the
\* INSERT of one of them, that request answers the error, and the table
\* never holds two rows of a student and a day.
C12_ConstraintError ==
    /\ \A r \in attendance : \A q \in attendance :
          (r.student_id = q.student_id /\ r.date = q.date) => r = q
    /\ (/\ inflight[1].pc = "done" /\ inflight[2].pc = "done"
        /\ \E c \in inflight[1].created : \E d \in inflight[2].created :
              c.student_id = d.student_id /\ c.date = d.date)
          => (inflight[1].status = "error") # (inflight[2].status = "error")

\* both requests of teacher 1 added a row for student 1 before either
\* committed; the first to commit succeeded, the other answered the error
C12_Witness ==
    /\ inflight[1].pc = "done" /\ inflight[2].pc = "done"
    /\ inflight[1].user = 1 /\ inflight[2].user = 1
    /\ \E c \in inflight[1].created : \E d \in inflight[2].created :
          c.student_id = 1 /\ d.student_id = 1
    /\ inflight[2].status = "ok" /\ inflight[1].status = "error"
    /\ Cardinality(RowsOf(attendance, 1)) = 1
    /\ Len(uploads) = 1

\* C13: an upload during which the detection model cannot load or run
\* creates and changes no Attendance row, and commits an ImageUpload row
\* with faces_detected = 0 and an empty list of matches.
C13_DetectionUnavailable ==
    [][(UploadStep /\ last'.error) =>
          /\ attendance' = attendance
          /\ last'.status = "ok"
          /\ Len(uploads') = Len(uploads) + 1
          /\ uploads'[Len(uploads')].uploaded_by = last'.user
          /\ uploads'[Len(uploads')].faces_detected = 0
          /\ uploads'[Len(uploads')].students_matched = 0
          /\ uploads'[Len(uploads')].attendance_marked_count = 0
          /\ JsonLoads(uploads'[Len(uploads')].face_matches_json).shape = 0
          /\ uploads'[Len(uploads')].face_matches_json.data = << >>]_vars

\* the detection raised for a teacher whose roster is enrolled and has no
\* row of the day yet
C13_Witness ==
    /\ Uploaded /\ last.error
    /\ Cardinality(Roster(last.user)) > 1
    /\ \A s \in Roster(last.user) : RowsOf(attendance, s) = {}
    /\ Len(uploads) = 1 /\ uploads[1].faces_detected = 0

\* the upload told the user this
Told(message) ==
    \E i \in 1 .. Len(Flashes(last)) :
        \E j \in 1 .. Len(Flashes(last)[i].message) :
            Flashes(last)[i].message[j] = message

\* C14: a detection model that is unavailable, a photo without faces and a
\* photo with faces for a teacher without enrolled embeddings are told
\* apart: the detection raises in the first case only, and the upload
\* tells the user "Face Recognition Error" exactly in the first, "No faces
\* detected" exactly in the second and "No students with face images
\* found" exactly in the third.
C14_Distinguishable ==
    (Uploaded /\ last.status = "ok") =>
        /\ Told("Face Recognition Error") <=> last.error
        /\ Told("No faces detected in image. Please upload a clear group photo.")
              <=> (~last.error /\ last.faces_detected = 0)
        /\ Told("No students with face images found. Please upload face images for students first in their profiles.")
              <=> (last.faces_detected > 0 /\ Roster(last.user) = {})
        /\ ~(last.error /\ last.faces_detected > 0)

\* the detection raised on a photo, for a teacher without enrolled embeddings
C14_Witness ==
    /\ Uploaded /\ last.status = "ok" /\ last.error
    /\ Roster(last.user) = {}
    /\ Told("Face Recognition Error")
    /\ Len(Flashes(last)) = 1

\* the students of the roster whose stored text is that of a vector of
\* EmbeddingDim numbers
Good(user) ==
    {s \in Roster(user) : /\ students[s].face_embedding.valid
                          /\ students[s].face_embedding.shape = EmbeddingDim}

\* C15, as claimed: a stored embedding that is malformed, empty or of
\* another length spoils only the comparisons with it: after an upload
\* with faces, every student of the roster with a valid embedding has one
\* row of the day, present exactly if a face scores highest against the
\* student, at or above the threshold, among the students with a valid
\* embedding.
C15_OnlyThatPair ==
    (/\ Uploaded /\ ~last.error /\ last.faces_detected > 0
     /\ last.failed_at = 0 /\ last.status = "ok") =>
        \A s \in Good(last.user) :
            /\ Cardinality(RowsOf(attendance, s)) = 1
            /\ \A r \in RowsOf(attendance, s) :
                  r.status <=> \E i \in 1 .. Len(last.found) :
                                  Claims(last.found[i], s, Good(last.user))

\* C16, as claimed: whatever fails in the detection, the matching or the
\* attendance loops of an upload, the request answers that the upload
\* succeeded and its ImageUpload row is committed.
C16_NeverFails ==
    [][(UploadStep /\ (last'.error \/ last'.raised \/ last'.failed_at > 0)) =>
          /\ last'.status = "ok"
          /\ Len(uploads') = Len(uploads) + 1]_vars

\* C17: an upload leaves every Attendance row of the day whose status is
\* already the computed one (present for a matched student, absent for an
\* unmatched one) exactly as it was, status, last_modified and marked_by
\* included, and counts as writes only the rows it created or changed.
C17_WrittenOnlyIfChanged ==
    [][UploadStep =>
          /\ \A r \in attendance :
                (/\ r.date = today
                 /\ \/ r.student_id \in last'.present_ids /\ r.status
                    \/ r.student_id \in last'.absent_ids /\ ~r.status)
                    => r \in attendance'
          /\ last'.status = "ok" =>
                /\ last'.written = Cardinality(attendance' \ attendance)
                /\ last'.failed_at = 0 => last'.attendance_marked = last'.written]_vars

\* a matched student was present already and an unmatched one absent
\* already; their rows still carry the time of the earlier marking and no
\* write is counted
C17_Witness ==
    /\ Completed
    /\ \E s \in last.present_ids : \E r \in RowsOf(attendance, s) :
          r.status /\ r.last_modified < clock
    /\ \E s \in last.absent_ids : \E r \in RowsOf(attendance, s) :
          ~r.status /\ r.last_modified < clock
    /\ last.written = 0
    /\ last.attendance_marked = 0

C19_ReferenceEmbedding ==
    \A s \in StudentIds :
        /\ students[s].face_embedding # NULL <=> photos[s].detected
        /\ photos[s].detected =>
              /\ students[s] # NoRow
              /\ students[s].face_embedding =
                     JsonDumps(embedding_to_json(photos[s].latest))
              /\ json_to_embedding(students[s].face_embedding) = photos[s].latest
        /\ ~photos[s].detected => students[s].face_embedding = NULL

\* a student added with a photo of one face and edited with a photo of
\* another, which replaced the embedding; and a student added with a photo
\* that yielded no embedding
C19_Witness ==
    /\ photos[1].detected
    /\ photos[1].earlier # NULL
    /\ photos[1].earlier # photos[1].latest
    /\ students[1].face_embedding = StoredEmbedding(VecB)
    /\ students[2] # NoRow
    /\ photos[2].refused
    /\ ~photos[2].detected
    /\ students[2].face_embedding = NULL

\* C20: after any add and edit requests every stored embedding has exactly
\* EmbeddingDim components, as text and as the array read from it; a photo
\* whose face has an embedding of another length stores nothing.
C20_StoredLength ==
    \A s \in StudentIds :
        /\ students[s].face_embedding # NULL =>
              /\ students[s].face_embedding.shape = EmbeddingDim
              /\ json_to_embedding(students[s].face_embedding).shape = EmbeddingDim
        /\ photos[s].misshapen /\ photos[s].earlier = NULL =>
              \/ students[s].face_embedding = NULL
              \/ /\ photos[s].latest.shape = EmbeddingDim
                 /\ students[s].face_embedding =
                        JsonDumps(embedding_to_json(photos[s].latest))

\* a student added with a photo whose face has a short embedding, which
\* stored nothing, and another who was then edited with a photo whose face
\* has one of EmbeddingDim components, which was stored
C20_Witness ==
    /\ students[1] # NoRow
    /\ photos[1].misshapen
    /\ students[1].face_embedding = NULL
    /\ photos[2].misshapen
    /\ photos[2].detected
    /\ students[2].face_embedding.shape = EmbeddingDim

\* C21, as claimed: json_to_embedding raises whenever the text is not JSON or
\* is JSON of a value that is no list of numbers, and returns no array for it.
C21_FailsOnNonSequence ==
    probe.stage = "read" /\ (~probe.text.valid \/ probe.text.json # "array") =>
        probe.output = Raised

\* C22, as claimed: find_student_in_group answers found exactly when an entry
\* of all_matches has is_match; when found, best_match_index is the index of
\* a face of the highest similarity, and otherwise it is -1; for every
\* threshold.
C22_FoundIffMatch ==
    probe.stage = "answered" =>
        LET r == probe.output
            entries == {r.all_matches[i] : i \in 1 .. Len(r.all_matches)}
        IN /\ r.found <=> \E e \in entries : e.is_match
           /\ r.found =>
                 \E e \in entries :
                     /\ e.index = r.best_match_index
                     /\ \A o \in entries : RatGE(e.similarity, o.similarity)
           /\ ~r.found => r.best_match_index = -1

\* C23: a teacher who registered without a principal is let in by login only
\* after approve_teacher for the account, and an account that reject_teacher
\* removed is never let in.
C23_ApprovedBeforeLogin ==
    \A n \in DOMAIN regs :
        /\ regs[n].origin = "register" /\ regs[n].logged_in =>
              regs[n].approved /\ ~regs[n].rejected
        /\ regs[n].rejected => ~regs[n].logged_in /\ ~regs[n].approved
        /\ regs[n].rejected => \A id \in UserIds : users[id].serial # n

\* a teacher registered, was refused by login, was approved and was let in;
\* another registered, was refused by login and was rejected
C23_Witness ==
    /\ regs[1].origin = "register"
    /\ regs[1].denied
    /\ regs[1].approved
    /\ regs[1].logged_in
    /\ regs[2].origin = "register"
    /\ regs[2].denied
    /\ regs[2].rejected

\* C30: no principal deletes the own account, so after any delete_user and
\* reject_teacher requests of logged-in principals a principal account is
\* left.
C30_PrincipalRemains ==
    /\ \E id \in UserIds : users[id].role = "principal"
    /\ \A id \in UserIds :
          Authenticated(id) /\ users[id].role = "principal" => ~MayDelete(id, id)

\* a second principal was registered and logged in, and deleted the account
\* of the first, whose session is left without an account
C30_Witness ==
    /\ \E n \in DOMAIN regs : regs[n].origin = "register_principal" /\ regs[n].logged_in
    /\ \E id \in Principals : users[id] = NoAccount /\ id \in sessions
    /\ Cardinality({id \in UserIds : users[id].role = "principal"}) = 1

\* C24, as claimed: the students_matched of the upload's record, and the
\* number the teacher is shown as 'student(s) matched', is the number of
\* students the upload marked present.
C24_MatchedIsPresentCount ==
    (Uploaded /\ last.status = "ok") =>
        /\ uploads[Len(uploads)].students_matched = Cardinality(last.present_ids)
        /\ MatchedShown(last) # << >> =>
              ParseFloat(MatchedShown(last)) = Cardinality(last.present_ids)

\* the student has rows of today after the step, all of this status
StatusAfter(s, status) ==
    /\ RowsOf(attendance', s) # {}
    /\ \A r \in RowsOf(attendance', s) : r.status = status

\* the rows of the student are after the step what they were
Untouched(s) ==
    {r \in attendance' : r.student_id = s} = {r \in attendance : r.student_id = s}

C26_OwnStudentsToday ==
    [][last'.op \in {"upload", "mark"} =>
          /\ \A r \in attendance :
                (students[r.student_id].teacher_id # last'.user \/ r.date # today)
                    => r \in attendance'
          /\ \A r \in attendance' \ attendance :
                /\ students[r.student_id].teacher_id = last'.user
                /\ r.date = today
          /\ today' = today]_vars

\* an upload wrote today's row of a student as the opposite of the row of
\* the day before, which is still there, while today's row of another
\* teacher's student is the one of the earlier request
C26_Witness ==
    /\ Completed
    /\ \E s \in Roster(last.user) :
          \E r \in attendance, q \in RowsOf(attendance, s) :
              /\ r.student_id = s /\ r.date # today
              /\ q.last_modified = clock
              /\ q.status # r.status
    /\ \E s \in StudentIds :
          /\ students[s].teacher_id # last.user
          /\ \E q \in RowsOf(attendance, s) : q.last_modified = 0
          /\ \E r \in attendance : r.student_id = s /\ r.date # today

C28_CountAndSync ==
    [][(UploadStep /\ last'.status = "ok") =>
          /\ Len(uploads') = Len(uploads) + 1
          /\ uploads'[Len(uploads')].attendance_marked_count =
                 Cardinality(attendance' \ attendance)
          /\ last'.synced <=> Cardinality(attendance' \ attendance) > 0]_vars

\* C29, as claimed: after any uploads and deletions the file of every
\* ImageUpload row that remains is on the disk.
C29_FilesExist ==
    \A i \in DOMAIN uploads : uploads[i].file_path \in disk

\* C10, as claimed: when an iteration of the attendance loops fails after
\* some writes of the upload were made, none of them is committed and the
\* request answers the failure.
C10_Atomic ==
    [][(UploadStep /\ last'.failed_at > 0 /\ last'.written > 0) =>
          /\ attendance' = attendance
          /\ last'.status = "error"]_vars

====
